---- MODULE Spec2Model ----
(***************************************************************************)
(* Model of server/auvsi_suas/models/moving_obstacle.py: the MovingObstacle*)
(* model class (travel times, periodic trajectory, position sampling,      *)
(* lazy per-instance caches, collision evaluation).                        *)
(*                                                                         *)
(* Numbers.  The code computes in floating point; the model computes in    *)
(* exact rationals, so rounding is not modelled.  A number is a record     *)
(* [tag, num, den]: tag "rat" (num/den in lowest terms, den > 0), tag      *)
(* "nan" (numpy's nan) or tag "none" (Python's None).                      *)
(* An optional value (an index that may be None, an attribute that may not *)
(* exist yet) is a sequence: <<>> for absent, <<v>> for present.           *)
(***************************************************************************)
EXTENDS Integers, Sequences, FiniteSets, TLC

\* ------------------------------------------------------------- bounds
MaxWaypoints == 3
MaxSpeed == 1
MaxRadius == 1
MaxTime == 1
MaxSamples == 2
MaxFits == 2
NumThreads == 2

\* Whole numbers of periods by which query timestamps are shifted.
PeriodShifts == {-1, 0, 1}

\* Candidate waypoint / telemetry positions (latitude, longitude, altitude).
Points == {<<0, 0, 0>>, <<0, 1, 0>>, <<1, 1, 0>>}

\* ------------------------------------------------------ float arithmetic
Abs(x) == IF x < 0 THEN -x ELSE x

RECURSIVE GCD(_, _)
GCD(a, b) == IF b = 0 THEN a ELSE GCD(b, a % b)

Rat(n, d) ==
    LET g == GCD(Abs(n), Abs(d))
        s == IF d < 0 THEN -1 ELSE 1
    IN  [tag |-> "rat", num |-> (s * n) \div g, den |-> (s * d) \div g]

NaN == [tag |-> "nan", num |-> 0, den |-> 1]
NoneVal == [tag |-> "none", num |-> 0, den |-> 1]
Zero == Rat(0, 1)
FromInt(i) == Rat(i, 1)

IsRat(x) == x.tag = "rat"

RAdd(x, y) ==
    IF IsRat(x) /\ IsRat(y)
    THEN Rat(x.num * y.den + y.num * x.den, x.den * y.den)
    ELSE NaN

RSub(x, y) ==
    IF IsRat(x) /\ IsRat(y)
    THEN Rat(x.num * y.den - y.num * x.den, x.den * y.den)
    ELSE NaN

RMul(x, y) ==
    IF IsRat(x) /\ IsRat(y) THEN Rat(x.num * y.num, x.den * y.den) ELSE NaN

\* Only used with a non-zero divisor (the code guards speed_avg > 0).
RDiv(x, y) ==
    IF IsRat(x) /\ IsRat(y) /\ y.num # 0
    THEN Rat(x.num * y.den, x.den * y.num)
    ELSE NaN

\* Comparisons with nan are false, as in IEEE arithmetic.
RLt(x, y) == IsRat(x) /\ IsRat(y) /\ x.num * y.den < y.num * x.den
RLe(x, y) == IsRat(x) /\ IsRat(y) /\ x.num * y.den <= y.num * x.den

RAbs(x) == IF IsRat(x) THEN Rat(Abs(x.num), x.den) ELSE NaN

\* numpy.mod(x, y): the result has the sign of the divisor, so it lies in
\* [0, y) for y > 0; nan for y = 0.
NpMod(x, y) ==
    IF IsRat(x) /\ IsRat(y) /\ y.num > 0
    THEN Rat((x.num * y.den) % (y.num * x.den), x.den * y.den)
    ELSE NaN

\* Storing None into a numpy float array stores nan.
ToFloat(x) == IF x.tag = "none" THEN NaN ELSE x

\* ------------------------------------------------------- collaborators
\* auvsi_suas.models.distance.distance_to: symmetric, zero iff the two
\* points coincide, monotonic in each separation.
DistanceTo(p, q) ==
    RAdd(RAdd(RAbs(RSub(p[1], q[1])), RAbs(RSub(p[2], q[2]))),
         RAbs(RSub(p[3], q[3])))

PosOf(pt) == <<FromInt(pt[1]), FromInt(pt[2]), FromInt(pt[3])>>

\* Waypoint.distance_to(other): distance between the waypoints' positions.
WaypointDistanceTo(w1, w2) == DistanceTo(PosOf(w1), PosOf(w2))

\* units.knots_to_feet_per_second: a fixed positive factor (27/16 = 1.6875).
knots_to_feet_per_second(knots) == Rat(knots * 27, 16)

\* ------------------------------------------------------ travel times
\* Mutant of get_waypoint_travel_time: the speed test is strict, so a zero
\* speed reaches the division.
get_waypoint_travel_time_ZeroSpeed(speed, wps, id_tm1, id_t) ==
    IF wps = <<>> THEN NoneVal
    ELSE IF Len(wps) < 2 THEN NoneVal
    ELSE IF id_tm1 = <<>> \/ id_tm1[1] < 0 \/ id_tm1[1] >= Len(wps) THEN NoneVal
    ELSE IF id_t = <<>> \/ id_t[1] < 0 \/ id_t[1] >= Len(wps) THEN NoneVal
    ELSE IF speed < 0 THEN NoneVal
    ELSE RDiv(WaypointDistanceTo(wps[id_tm1[1] + 1], wps[id_t[1] + 1]),
              knots_to_feet_per_second(speed))

get_waypoint_travel_time(speed, wps, id_tm1, id_t) ==
    IF wps = <<>> THEN NoneVal
    ELSE IF Len(wps) < 2 THEN NoneVal
    ELSE IF id_tm1 = <<>> \/ id_tm1[1] < 0 \/ id_tm1[1] >= Len(wps) THEN NoneVal
    ELSE IF id_t = <<>> \/ id_t[1] < 0 \/ id_t[1] >= Len(wps) THEN NoneVal
    ELSE IF speed <= 0 THEN NoneVal
    ELSE LET waypoint_t == wps[id_t[1] + 1]
             waypoint_tm1 == wps[id_tm1[1] + 1]
             waypoint_dist == WaypointDistanceTo(waypoint_tm1, waypoint_t)
             speed_avg_fps == knots_to_feet_per_second(speed)
         IN  RDiv(waypoint_dist, speed_avg_fps)

\* The loop of get_inter_waypoint_travel_times up to waypoint_id; entry 0
\* of the array stays the zero of np.zeros.
RECURSIVE TravelTimesLoop(_, _, _)
TravelTimesLoop(speed, wps, waypoint_id) ==
    IF waypoint_id = 0 THEN <<Zero>>
    ELSE LET num_waypoints == Len(wps)
             id_tm1 == (waypoint_id - 1) % num_waypoints
             id_t == waypoint_id % num_waypoints
             cur_travel_time ==
                 get_waypoint_travel_time(speed, wps, <<id_tm1>>, <<id_t>>)
         IN  Append(TravelTimesLoop(speed, wps, waypoint_id - 1),
                    ToFloat(cur_travel_time))

\* Mutant of get_inter_waypoint_travel_times: the loop stops one short
\* (range(1, num_waypoints)), so the wrap segment keeps the zero of np.zeros.
get_inter_waypoint_travel_times_NoWrap(speed, wps) ==
    IF Len(wps) = 0 THEN <<Zero>>
    ELSE Append(TravelTimesLoop(speed, wps, Len(wps) - 1), Zero)

get_inter_waypoint_travel_times(speed, wps) ==
    TravelTimesLoop(speed, wps, Len(wps))

\* The loop of get_waypoint_times over the first n paths: the running
\* total_time is the last entry written.
RECURSIVE WaypointTimesLoop(_, _)
WaypointTimesLoop(waypoint_travel_times, n) ==
    IF n = 0 THEN <<>>
    ELSE LET pos_times == WaypointTimesLoop(waypoint_travel_times, n - 1)
             total_time == IF n = 1 THEN Zero ELSE pos_times[n - 1]
         IN  Append(pos_times, RAdd(total_time, waypoint_travel_times[n]))

get_waypoint_times(waypoint_travel_times) ==
    WaypointTimesLoop(waypoint_travel_times, Len(waypoint_travel_times))

\* ------------------------------------------------- waypoint filtering
\* Mutant of KeepWaypoint: the index test is off by one, so the second
\* waypoint is always kept.
KeepWaypoint_OffByOne(all_wpts, i) ==
    i <= 2 \/ WaypointDistanceTo(all_wpts[i], all_wpts[i - 1]) # Zero

\* The filter of get_position's list comprehension; i is the 1-based index.
KeepWaypoint(all_wpts, i) ==
    i = 1 \/ WaypointDistanceTo(all_wpts[i], all_wpts[i - 1]) # Zero

RECURSIVE FilterUpTo(_, _)
FilterUpTo(all_wpts, i) ==
    IF i = 0 THEN <<>>
    ELSE IF KeepWaypoint(all_wpts, i)
         THEN Append(FilterUpTo(all_wpts, i - 1), all_wpts[i])
         ELSE FilterUpTo(all_wpts, i - 1)

\* Load waypoints for obstacle, filter for consecutive duplicates.
Dedup(all_wpts) == FilterUpTo(all_wpts, Len(all_wpts))

\* ------------------------------------------------------------ splines
StrictlyIncreasing(x) == \A i \in 1..(Len(x) - 1) : RLt(x[i], x[i + 1])

\* scipy.interpolate.splrep(x, y, k=k, per=1): FITPACK's percur rejects
\* abscissae that are not strictly increasing ("Error on input data",
\* raised as ValueError); with per=1 the last ordinate is not used.
splrep(x, y, k) ==
    IF StrictlyIncreasing(x)
    THEN [tag |-> "ok", t |-> x, c |-> SubSeq(y, 1, Len(y) - 1), k |-> k]
    ELSE [tag |-> "raise", t |-> <<>>, c |-> <<>>, k |-> k]

\* scipy.interpolate.splev(x, tck) for a periodic interpolating spline: a
\* curve through the control points (t[i], c[i]) that closes at t[m] with
\* the first ordinate.  Between control points the model interpolates
\* linearly (the polynomial degree k is kept in tck but not evaluated).
splev(x, tck) ==
    LET m == Len(tck.t)
        segs == {i \in 1..(m - 1) : RLe(tck.t[i], x) /\ RLt(x, tck.t[i + 1])}
    IN  IF segs = {} THEN NaN
        ELSE LET i == CHOOSE j \in segs : TRUE
                 y0 == FromInt(tck.c[i])
                 y1 == FromInt(IF i + 1 = m THEN tck.c[1] ELSE tck.c[i + 1])
                 frac == RDiv(RSub(x, tck.t[i]), RSub(tck.t[i + 1], tck.t[i]))
             IN  RAdd(y0, RMul(RSub(y1, y0), frac))

\* Column iter_dim of the positions array: one row per waypoint, up to row
\* n, and (for n = num_waypoints + 1) the last row, left at np.zeros.
RECURSIVE PositionsColumn(_, _, _)
PositionsColumn(wps, iter_dim, n) ==
    IF n = 0 THEN <<>>
    ELSE Append(PositionsColumn(wps, iter_dim, n - 1),
                IF n <= Len(wps) THEN wps[n][iter_dim] ELSE 0)

get_spline_curve(speed, wps) ==
    LET num_waypoints == Len(wps)
        waypoint_travel_times == get_inter_waypoint_travel_times(speed, wps)
        pos_times == get_waypoint_times(waypoint_travel_times)
        total_travel_time == pos_times[Len(pos_times)]
        spline_k == IF num_waypoints >= 3 THEN 3 ELSE 2
        spline_reps ==
            <<splrep(pos_times, PositionsColumn(wps, 1, num_waypoints + 1),
                     spline_k),
              splrep(pos_times, PositionsColumn(wps, 2, num_waypoints + 1),
                     spline_k),
              splrep(pos_times, PositionsColumn(wps, 3, num_waypoints + 1),
                     spline_k)>>
    IN  IF \E d \in 1..3 : spline_reps[d].tag = "raise"
        THEN [tag |-> "raise", total_travel_time |-> total_travel_time,
              spline_reps |-> <<>>]
        ELSE [tag |-> "ok", total_travel_time |-> total_travel_time,
              spline_reps |-> spline_reps]

\* ------------------------------------------------------- get_position
Origin == <<Zero, Zero, Zero>>
Returned(p) == [tag |-> "ok", pos |-> p]
Raised == [tag |-> "raise", pos |-> Origin]

\* timezone.now().replace(year=1970, month=1, day=1, hour=0, ...): a fixed
\* instant; timestamps of the model are seconds relative to it.
epoch_time == Zero

\* Lines 184-201: sample the three splines at the time reduced modulo the
\* total travel time.
SampleSpline(spline_curve, cur_time) ==
    LET cur_time_sec == RSub(cur_time, epoch_time)
        cur_path_time == NpMod(cur_time_sec, spline_curve.total_travel_time)
    IN  <<splev(cur_path_time, spline_curve.spline_reps[1]),
          splev(cur_path_time, spline_curve.spline_reps[2]),
          splev(cur_path_time, spline_curve.spline_reps[3])>>

\* Mutant of IsShortCircuit: a zero speed is not short-circuited.
IsShortCircuit_ZeroSpeedMoves(speed, wps) ==
    Len(wps) = 0 \/ Len(wps) = 1 \/ speed < 0

\* Lines 168-176: waypoint counts of 0 or 1 can skip calc, so can no speed.
IsShortCircuit(speed, wps) == Len(wps) = 0 \/ Len(wps) = 1 \/ speed <= 0

ShortCircuitPosition(wps) ==
    IF Len(wps) = 0 THEN Origin ELSE PosOf(wps[1])

\* The whole method on an object state self (fields of the instance, the two
\* dynamically attached cache attributes, and counters of the waypoint
\* loads and of the get_spline_curve calls made so far).
get_position(self, cur_time) ==
    LET hasW == self.preprocessed_waypoints # <<>>
        wps == IF hasW THEN self.preprocessed_waypoints[1]
               ELSE Dedup(self.waypoints)
        s1 == IF hasW THEN self
              ELSE [self EXCEPT !.preprocessed_waypoints = <<wps>>,
                                !.n_load = @ + 1]
    IN  IF IsShortCircuit(self.speed_avg, wps)
        THEN [self |-> s1, ret |-> Returned(ShortCircuitPosition(wps))]
        ELSE IF s1.preprocessed_spline_curve # <<>>
        THEN [self |-> s1,
              ret |-> Returned(SampleSpline(s1.preprocessed_spline_curve[1],
                                            cur_time))]
        ELSE LET spline_curve == get_spline_curve(self.speed_avg, wps)
                 s2 == [s1 EXCEPT !.n_fit = @ + 1]
             IN  IF spline_curve.tag = "raise"
                 THEN [self |-> s2, ret |-> Raised]
                 ELSE [self |-> [s2 EXCEPT !.preprocessed_spline_curve =
                                              <<spline_curve>>],
                       ret |-> Returned(SampleSpline(spline_curve, cur_time))]

\* ---------------------------------------------------------- collision
contains_pos(radius, obst_pos, aerial_pos) ==
    RLe(DistanceTo(obst_pos, PosOf(aerial_pos)), FromInt(radius))

\* The loop of evaluate_collision_with_uas over the interpolated logs, from
\* the i-th one on; an exception of get_position propagates.
RECURSIVE EvalLoop(_, _, _)
EvalLoop(self, logs, i) ==
    IF i > Len(logs) THEN [self |-> self, ret |-> "False"]
    ELSE LET r == get_position(self, logs[i].timestamp)
         IN  IF r.ret.tag = "raise" THEN [self |-> r.self, ret |-> "raise"]
             ELSE IF contains_pos(self.sphere_radius, r.ret.pos,
                                  logs[i].uas_position)
             THEN [self |-> r.self, ret |-> "True"]
             ELSE EvalLoop(r.self, logs, i + 1)

evaluate_collision_with_uas(self, logs) == EvalLoop(self, logs, 1)

\* ================================================================ state
VARIABLES
    waypoints,                  \* self.waypoints.order_by('order')
    speed_avg,                  \* self.speed_avg (knots)
    sphere_radius,              \* self.sphere_radius
    preprocessed_waypoints,     \* attribute, absent until first stored
    preprocessed_spline_curve,  \* attribute, absent until first stored
    n_load,                     \* waypoint loads / filterings performed
    n_fit,                      \* get_spline_curve invocations
    op,                         \* the last completed call and its result
    thr,                        \* per thread: position inside get_position
    stores                      \* writes of each cache attribute (threads)

config == <<waypoints, speed_avg, sphere_radius>>
cache == <<preprocessed_waypoints, preprocessed_spline_curve>>
vars == <<waypoints, speed_avg, sphere_radius, preprocessed_waypoints,
          preprocessed_spline_curve, n_load, n_fit, op, thr, stores>>

Threads == 1..NumThreads

SeqsUpTo(S, n) == UNION {[1..k -> S] : k \in 0..n}

Self ==
    [waypoints |-> waypoints, speed_avg |-> speed_avg,
     sphere_radius |-> sphere_radius,
     preprocessed_waypoints |-> preprocessed_waypoints,
     preprocessed_spline_curve |-> preprocessed_spline_curve,
     n_load |-> n_load, n_fit |-> n_fit]

SetSelf(s) ==
    /\ preprocessed_waypoints' = s.preprocessed_waypoints
    /\ preprocessed_spline_curve' = s.preprocessed_spline_curve
    /\ n_load' = s.n_load
    /\ n_fit' = s.n_fit
    /\ UNCHANGED config

IdleThread ==
    [pc |-> "idle", cur_time |-> Zero, waypoints |-> <<>>,
     spline_curve |-> <<>>, ret |-> <<>>]

\* A freshly constructed instance: any circuit of up to MaxWaypoints
\* waypoints, any speed (negative, zero, positive), no cache attribute yet.
InitObstacle ==
    /\ waypoints \in SeqsUpTo(Points, MaxWaypoints)
    /\ speed_avg \in (-1)..MaxSpeed
    /\ preprocessed_waypoints = <<>>
    /\ preprocessed_spline_curve = <<>>
    /\ n_load = 0
    /\ n_fit = 0
    /\ op = [name |-> "init", args |-> <<>>, ret |-> <<>>, before |-> <<>>]
    /\ thr = [t \in Threads |-> IdleThread]
    /\ stores = [wpts |-> 0, spline |-> 0]

\* Only the collision test reads sphere_radius.
Init == InitObstacle /\ sphere_radius = 0

InitCollision == InitObstacle /\ sphere_radius \in 0..MaxRadius

\* ------------------------------------------------------------ inputs
\* The circuit's total period, when it has one (>= 2 filtered waypoints and
\* a positive speed).
HasPeriod == Len(Dedup(waypoints)) >= 2 /\ speed_avg > 0

TotalPeriod ==
    LET times == get_waypoint_times(
                     get_inter_waypoint_travel_times(speed_avg,
                                                     Dedup(waypoints)))
    IN  times[Len(times)]

BaseTimes == {FromInt(t) : t \in 0..MaxTime}

\* Query timestamps: whole seconds, and those shifted by whole periods.
QueryTimes ==
    IF HasPeriod
    THEN {RAdd(t, RMul(FromInt(k), TotalPeriod)) :
             t \in BaseTimes, k \in PeriodShifts}
    ELSE BaseTimes

WaypointArgs == {waypoints, Dedup(waypoints)}

OptIndex == {<<>>} \cup {<<i>> : i \in (-1)..MaxWaypoints}

\* Positions reported by the UAS: on the circuit's first corner and off it.
UasPoints == {<<0, 0, 0>>, <<1, 1, 0>>}

Samples == [timestamp : BaseTimes, uas_position : UasPoints]

\* Telemetry logs as UasTelemetry.interpolate yields them: ordered by time.
TelemetryLogs ==
    {logs \in SeqsUpTo(Samples, MaxSamples) :
        \A i \in 1..(Len(logs) - 1) :
            RLe(logs[i].timestamp, logs[i + 1].timestamp)}

\* ============================================================ actions
GetPosition(cur_time) ==
    \E r \in {get_position(Self, cur_time)} :
        /\ r.self.n_fit <= MaxFits
        /\ SetSelf(r.self)
        /\ op' = [name |-> "get_position", args |-> <<cur_time>>,
                  ret |-> r.ret,
                  before |-> IF op.name = "get_position"
                             THEN <<[cur_time |-> op.args[1], ret |-> op.ret]>>
                             ELSE <<>>]
        /\ UNCHANGED <<thr, stores>>

GetWaypointTravelTime(wps, id_tm1, id_t) ==
    /\ op' = [name |-> "get_waypoint_travel_time",
              args |-> <<wps, id_tm1, id_t>>,
              ret |-> get_waypoint_travel_time(speed_avg, wps, id_tm1, id_t),
              before |-> <<cache>>]
    /\ UNCHANGED <<config, cache, n_load, n_fit, thr, stores>>

GetInterWaypointTravelTimes(wps) ==
    /\ op' = [name |-> "get_inter_waypoint_travel_times", args |-> <<wps>>,
              ret |-> get_inter_waypoint_travel_times(speed_avg, wps),
              before |-> <<>>]
    /\ UNCHANGED <<config, cache, n_load, n_fit, thr, stores>>

GetWaypointTimes(waypoint_travel_times) ==
    /\ op' = [name |-> "get_waypoint_times",
              args |-> <<waypoint_travel_times>>,
              ret |-> get_waypoint_times(waypoint_travel_times),
              before |-> <<>>]
    /\ UNCHANGED <<config, cache, n_load, n_fit, thr, stores>>

EvaluateCollisionWithUas(logs) ==
    \E r \in {evaluate_collision_with_uas(Self, logs)} :
        /\ r.self.n_fit <= MaxFits
        /\ SetSelf(r.self)
        /\ op' = [name |-> "evaluate_collision_with_uas", args |-> <<logs>>,
                  ret |-> r.ret, before |-> <<cache>>]
        /\ UNCHANGED <<thr, stores>>

\* Position queries made one after another on the same instance.
Next == \E cur_time \in QueryTimes : GetPosition(cur_time)

Spec == Init /\ [][Next]_vars

\* The travel-time functions, called with the instance's waypoint lists.
NextTravel ==
    \/ \E wps \in WaypointArgs, id_tm1 \in OptIndex, id_t \in OptIndex :
           GetWaypointTravelTime(wps, id_tm1, id_t)
    \/ \E wps \in WaypointArgs : GetInterWaypointTravelTimes(wps)
    \/ \E wps \in WaypointArgs :
           GetWaypointTimes(get_inter_waypoint_travel_times(speed_avg, wps))

SpecTravel == Init /\ [][NextTravel]_vars

\* Collision evaluations of telemetry logs, one after another.
NextCollision == \E logs \in TelemetryLogs : EvaluateCollisionWithUas(logs)

SpecCollision == InitCollision /\ [][NextCollision]_vars

\* ------------------------------------------------------------ threads
\* get_position run by several threads on the same instance.  The method
\* takes no lock; threads interleave between its attribute reads and
\* writes.  Each step below is one such read, computation or write.
SetThread(t, rec) == thr' = [thr EXCEPT ![t] = rec]

\* A thread enters get_position(cur_time).
TCall(t, cur_time) ==
    /\ thr[t].pc = "idle"
    /\ SetThread(t, [thr[t] EXCEPT !.pc = "check_waypoints",
                                   !.cur_time = cur_time])
    /\ UNCHANGED <<config, cache, n_load, n_fit, op, stores>>

\* Lines 157-158: hasattr(self, 'preprocessed_waypoints').
TCheckWaypoints(t) ==
    /\ thr[t].pc = "check_waypoints"
    /\ IF preprocessed_waypoints # <<>>
       THEN SetThread(t, [thr[t] EXCEPT !.pc = "count",
                              !.waypoints = preprocessed_waypoints[1]])
       ELSE SetThread(t, [thr[t] EXCEPT !.pc = "load_waypoints"])
    /\ UNCHANGED <<config, cache, n_load, n_fit, op, stores>>

\* Lines 160-165: load and filter the waypoints into a local list.
TLoadWaypoints(t) ==
    /\ thr[t].pc = "load_waypoints"
    /\ SetThread(t, [thr[t] EXCEPT !.pc = "store_waypoints",
                                   !.waypoints = Dedup(waypoints)])
    /\ n_load' = n_load + 1
    /\ UNCHANGED <<config, cache, n_fit, op, stores>>

\* Line 166: self.preprocessed_waypoints = waypoints.
TStoreWaypoints(t) ==
    /\ thr[t].pc = "store_waypoints"
    /\ preprocessed_waypoints' = <<thr[t].waypoints>>
    /\ stores' = [stores EXCEPT !.wpts = @ + 1]
    /\ SetThread(t, [thr[t] EXCEPT !.pc = "count"])
    /\ UNCHANGED <<config, preprocessed_spline_curve, n_load, n_fit, op>>

\* Lines 168-176: the short-circuit returns.
TCount(t) ==
    /\ thr[t].pc = "count"
    /\ IF IsShortCircuit(speed_avg, thr[t].waypoints)
       THEN SetThread(t, [thr[t] EXCEPT !.pc = "done",
                !.ret = <<Returned(ShortCircuitPosition(thr[t].waypoints))>>])
       ELSE SetThread(t, [thr[t] EXCEPT !.pc = "check_spline"])
    /\ UNCHANGED <<config, cache, n_load, n_fit, op, stores>>

\* Lines 179-180: hasattr(self, 'preprocessed_spline_curve').
TCheckSpline(t) ==
    /\ thr[t].pc = "check_spline"
    /\ IF preprocessed_spline_curve # <<>>
       THEN SetThread(t, [thr[t] EXCEPT !.pc = "sample",
                              !.spline_curve = preprocessed_spline_curve])
       ELSE SetThread(t, [thr[t] EXCEPT !.pc = "fit"])
    /\ UNCHANGED <<config, cache, n_load, n_fit, op, stores>>

\* Line 182: spline_curve = self.get_spline_curve(waypoints).
TFit(t) ==
    /\ thr[t].pc = "fit"
    /\ \E spline_curve \in {get_spline_curve(speed_avg, thr[t].waypoints)} :
           IF spline_curve.tag = "raise"
           THEN SetThread(t, [thr[t] EXCEPT !.pc = "done",
                                            !.ret = <<Raised>>])
           ELSE SetThread(t, [thr[t] EXCEPT !.pc = "store_spline",
                                  !.spline_curve = <<spline_curve>>])
    /\ n_fit' = n_fit + 1
    /\ UNCHANGED <<config, cache, n_load, op, stores>>

\* Line 183: self.preprocessed_spline_curve = spline_curve.
TStoreSpline(t) ==
    /\ thr[t].pc = "store_spline"
    /\ preprocessed_spline_curve' = thr[t].spline_curve
    /\ stores' = [stores EXCEPT !.spline = @ + 1]
    /\ SetThread(t, [thr[t] EXCEPT !.pc = "sample"])
    /\ UNCHANGED <<config, preprocessed_waypoints, n_load, n_fit, op>>

\* Lines 184-201: sample the local spline_curve and return.
TSample(t) ==
    /\ thr[t].pc = "sample"
    /\ SetThread(t, [thr[t] EXCEPT !.pc = "done",
           !.ret = <<Returned(SampleSpline(thr[t].spline_curve[1],
                                           thr[t].cur_time))>>])
    /\ UNCHANGED <<config, cache, n_load, n_fit, op, stores>>

NextThreads ==
    \E t \in Threads :
        \/ \E cur_time \in BaseTimes : TCall(t, cur_time)
        \/ TCheckWaypoints(t)
        \/ TLoadWaypoints(t)
        \/ TStoreWaypoints(t)
        \/ TCount(t)
        \/ TCheckSpline(t)
        \/ TFit(t)
        \/ TStoreSpline(t)
        \/ TSample(t)

SpecThreads == Init /\ [][NextThreads]_vars

\* =============================================================== claims
\* The filtered circuit of the instance, as the claims speak of it.
Circuit == Dedup(waypoints)

LastQueryTime == op.args[1]

\* C1: in every short-circuit case get_position is independent of the
\* timestamp: with an empty filtered circuit it returns the sentinel
\* (0, 0, 0); with exactly one waypoint, or speed_avg <= 0 and at least one
\* waypoint, it returns the first filtered waypoint's position; and
\* get_spline_curve is not invoked.
C1_ShortCircuitIgnoresTime ==
    (/\ op.name = "get_position"
     /\ (Len(Circuit) = 0 \/ Len(Circuit) = 1 \/ speed_avg <= 0))
    => /\ op.ret = Returned(IF Len(Circuit) = 0 THEN Origin
                            ELSE PosOf(Circuit[1]))
       /\ n_fit = 0
       /\ (op.before # <<>> => op.before[1].ret = op.ret)

\* Two queries at different timestamps of a stationary obstacle (speed <= 0)
\* that has at least two distinct waypoints.
C1_Witness ==
    /\ op.name = "get_position"
    /\ speed_avg <= 0
    /\ Len(Circuit) >= 2
    /\ op.before # <<>>
    /\ op.before[1].cur_time # LastQueryTime
    /\ op.ret = Returned(PosOf(Circuit[1]))

\* C7: the waypoint filter is idempotent (filtering the cached, filtered list
\* again gives the same list), and an all-identical list collapses to a
\* single waypoint.
C7_DedupIdempotent ==
    preprocessed_waypoints # <<>>
    => LET kept == preprocessed_waypoints[1]
       IN  /\ Dedup(kept) = kept
           /\ (/\ waypoints # <<>>
               /\ \A i \in 1..Len(waypoints) : waypoints[i] = waypoints[1])
              => Len(kept) = 1

\* A list of several identical waypoints was loaded and collapsed to one.
C7_Witness ==
    /\ preprocessed_waypoints # <<>>
    /\ Len(waypoints) >= 2
    /\ \A i \in 1..Len(waypoints) : waypoints[i] = waypoints[1]
    /\ Len(preprocessed_waypoints[1]) = 1

\* Whether d is a whole (positive, zero or negative) multiple of period.
IsWholeMultiple(d, period) ==
    LET q == RDiv(d, period) IN IsRat(q) /\ q.den = 1

\* C3: for a circuit with >= 2 distinct waypoints and positive speed, two
\* queries whose timestamps differ by a whole multiple of the total period
\* return equal positions.
C3_Periodic ==
    (/\ op.name = "get_position"
     /\ Len(Circuit) >= 2 /\ speed_avg > 0
     /\ op.before # <<>>
     /\ IsWholeMultiple(RSub(LastQueryTime, op.before[1].cur_time),
                        TotalPeriod))
    => /\ op.ret.tag = "ok"
       /\ op.before[1].ret.tag = "ok"
       /\ op.ret.pos = op.before[1].ret.pos

\* C4: over any sequence of get_position calls on one instance,
\* get_spline_curve is invoked at most once and the waypoints are loaded and
\* filtered at most once.
C4_BuildAtMostOnce == n_fit <= 1 /\ n_load <= 1

\* C8: the filtered circuit that get_position caches has no two coincident
\* adjacent entries, the wrap-around pair (last, first) included, unless it
\* has exactly one waypoint.
C8_CircuitInvariant ==
    preprocessed_waypoints # <<>>
    => LET kept == preprocessed_waypoints[1]
           n == Len(kept)
       IN  n # 1 => \A i \in 1..n : kept[i] # kept[(i % n) + 1]

\* C9: whenever get_position has reached the spline fit, the cumulative
\* arrival times handed to it are strictly increasing (every segment time,
\* the wrap segment included, is positive) and the total period is positive.
C9_FitTimesIncrease ==
    n_fit > 0
    => LET pos_times == get_waypoint_times(
                            get_inter_waypoint_travel_times(
                                speed_avg, preprocessed_waypoints[1]))
       IN  /\ StrictlyIncreasing(pos_times)
           /\ RLt(Zero, pos_times[Len(pos_times)])

\* The logs in the order given by the permutation p of their indices.
Reordered(logs, p) == [i \in 1..Len(logs) |-> logs[p[i]]]

\* C2: evaluate_collision_with_uas returns true if and only if at least one
\* sample lies within sphere_radius (inclusive) of the position get_position
\* computes at that sample's timestamp, false when none does, and the same
\* for every ordering of the samples.
C2_CollisionIffSomeSampleInside ==
    op.name = "evaluate_collision_with_uas"
    => LET logs == op.args[1]
           before == [Self EXCEPT
                         !.preprocessed_waypoints = op.before[1][1],
                         !.preprocessed_spline_curve = op.before[1][2]]
           Inside(log) ==
               LET r == get_position(Self, log.timestamp)
               IN  /\ r.ret.tag = "ok"
                   /\ RLe(DistanceTo(r.ret.pos, PosOf(log.uas_position)),
                          FromInt(sphere_radius))
       IN  /\ op.ret = IF \E i \in 1..Len(logs) : Inside(logs[i])
                       THEN "True" ELSE "False"
           /\ \A p \in Permutations(1..Len(logs)) :
                  evaluate_collision_with_uas(before,
                                              Reordered(logs, p)).ret = op.ret

\* C5: get_waypoint_travel_time returns None when the list is empty, has
\* fewer than 2 waypoints, an index is None or outside [0, len), or
\* speed_avg <= 0, each on its own; otherwise the distance between the two
\* waypoints divided by the speed (in feet per second); and it leaves the
\* instance's state as it was.
C5_TravelTimeOrNone ==
    op.name = "get_waypoint_travel_time"
    => LET wps == op.args[1]
           id_tm1 == op.args[2]
           id_t == op.args[3]
           BadIndex(id) == id = <<>> \/ id[1] \notin 0..(Len(wps) - 1)
           undefined == \/ Len(wps) < 2
                        \/ BadIndex(id_tm1)
                        \/ BadIndex(id_t)
                        \/ speed_avg <= 0
       IN  /\ undefined => op.ret = NoneVal
           /\ ~undefined =>
                 /\ IsRat(op.ret)
                 /\ RMul(op.ret, knots_to_feet_per_second(speed_avg))
                        = WaypointDistanceTo(wps[id_tm1[1] + 1],
                                             wps[id_t[1] + 1])
           /\ cache = op.before[1]

\* A call that fails for one reason alone: the end index is len(waypoints),
\* with two or more waypoints, a valid start index and a positive speed.
C5_Witness ==
    /\ op.name = "get_waypoint_travel_time"
    /\ Len(op.args[1]) >= 2
    /\ speed_avg > 0
    /\ op.args[2] = <<0>>
    /\ op.args[3] = <<Len(op.args[1])>>
    /\ op.ret = NoneVal

RECURSIVE SumOfFirst(_, _)
SumOfFirst(seq, k) ==
    IF k = 0 THEN Zero ELSE RAdd(SumOfFirst(seq, k - 1), seq[k])

C10_SynchronizedFirstPopulation ==
    /\ n_fit <= 1
    /\ stores.spline <= 1
    /\ stores.wpts <= 1

\* ------------------------------------------------------------- lemmas
\* What holds of the same calls on every circuit, the degenerate ones
\* included.
\* The fit fails exactly on the circuits whose wrap-around pair coincides.
FitFailsIffWrapCoincides ==
    (op.name = "get_position" /\ Len(Circuit) >= 2 /\ speed_avg > 0)
    => (op.ret.tag = "raise" <=> Circuit[Len(Circuit)] = Circuit[1])

\* Periodicity of the outcome (a position, or the failure of the fit).
OutcomePeriodic ==
    (/\ op.name = "get_position"
     /\ Len(Circuit) >= 2 /\ speed_avg > 0
     /\ op.before # <<>>
     /\ IsWholeMultiple(RSub(LastQueryTime, op.before[1].cur_time),
                        TotalPeriod))
    => op.ret = op.before[1].ret

\* A successful fit is made once, and the caches are never replaced.
BuildOnceUnlessFitFails ==
    /\ n_load <= 1
    /\ preprocessed_spline_curve # <<>> => n_fit = 1
    /\ n_fit > 1 => Circuit[Len(Circuit)] = Circuit[1]

CachesWrittenOnce ==
    [][/\ preprocessed_waypoints # <<>>
          => preprocessed_waypoints' = preprocessed_waypoints
       /\ preprocessed_spline_curve # <<>>
          => preprocessed_spline_curve' = preprocessed_spline_curve]_vars


\* The collision result whenever no query fails: true iff some sample is
\* inside, whatever the order of the samples.
CollisionIffInsideUnlessFitFails ==
    (op.name = "evaluate_collision_with_uas" /\ op.ret # "raise")
    => C2_CollisionIffSomeSampleInside

\* Threads never see a partly built cache, and all write the same values.
ThreadsAgreeOnCaches ==
    /\ preprocessed_waypoints # <<>> => preprocessed_waypoints = <<Circuit>>
    /\ preprocessed_spline_curve # <<>>
       => preprocessed_spline_curve
              = <<get_spline_curve(speed_avg, Circuit)>>

====
